---- MODULE Spec2Model ----
(***************************************************************************)
(* Model of celery_growthmonitor/models/job.py: the path resolution        *)
(* (root_job, job_data, job_results), the required-file promotion          *)
(* (move_to_data, the post_save handler wired by                           *)
(* JobWithRequiredUserFilesManager) and AJob.save().                       *)
(*                                                                         *)
(* One job type (one model class) and NumJobs instances of it.  A path is  *)
(* a sequence of components; an absolute path starts with "/".  The        *)
(* filesystem is a set of directories and a map from file paths to the     *)
(* bytes stored there; bytes are identified by <<job, field>>.  The        *)
(* persistence layer is one row per job instance.  Python runs one save()  *)
(* at a time: `active` is the instance inside save().                      *)
(***************************************************************************)
EXTENDS Integers, Sequences, FiniteSets, TLC

\* ------------------------------------------------------------------ bounds
MaxSaves == 2
MaxTTL == 2

\* two in-memory instances of the job type
Jobs == {1, 2}

\* --------------------------------------------------------------- constants
TEMPORARY_JOB_FOLDER == "tmp"
\* None, and every value Python treats as false where the code tests `not x`
Unset == 0
\* rnd.randrange(10 ** 6, 10 ** 7): the lowest and the highest value it can draw
TmpIdLow == 10 ^ 6
TmpIdHigh == 10 ^ 7 - 1
TmpIds == {TmpIdLow, TmpIdHigh}

\* settings.django_settings.MEDIA_ROOT and settings.APP_ROOT (below MEDIA_ROOT)
MEDIA_ROOT == <<"/", "media">>
APP_ROOT == <<"/", "media", "app">>
\* instance.__class__.__name__.lower()
ClassNameLower == "job"
\* a job type's job_root attribute: absent, a fixed prefix, or a callable
RootKinds == {"none", "prefix", "callable"}
PrefixRoot == <<"/", "media", "prefix">>
CallableRoot == <<"/", "media", "custom">>

\* the file fields of the job type and the lists it may declare as required
Fields == {"f1", "f2"}
RequiredLists == {<< >>, <<"f1", "f2">>}
NoName == << >>
\* a closure the caller passes to the constructor
GivenClosure == 100

Errors == {"none", "FileNotFoundError", "FileExistsError", "AttributeError",
           "AssertionError"}

\* what a job type may set as upload_to_data / upload_to_results: nothing, a
\* prefix, job_data or job_results themselves, a function of the user, a
\* function of the user that compiles to the bytecode of job_data, and a
\* callable that is no function (functools.partial, an object with __call__)
UploadKinds == {"none", "prefix", "job_data", "job_results", "function",
                "lookalike", "partial"}
PrefixUpload == <<"uploads">>
\* the filenames path resolution is asked for ('' is the default)
Filenames == {<< >>, <<"a.txt">>}

VARIABLES
    wired,                \* the type uses JobWithRequiredUserFilesManager
    job_root_kind,        \* class attribute job_root
    required_user_files,  \* class attribute required_user_files
    class_tmp_id,         \* class attribute _tmp_id
    TTL,                  \* settings.TTL
    upload_to_data,       \* class attribute upload_to_data
    upload_to_results,    \* class attribute upload_to_results
    pc,                   \* per instance: position in the program
    id,                   \* instance.id (Unset before the first write)
    tmp_id,               \* instance attribute _tmp_id (-1: not set on the instance)
    tmp_files,            \* instance attribute _tmp_files (<< >>: absent or empty)
    name,                 \* name[j][f]: the file reference of field f (file.name)
    closure,              \* instance.closure
    timestamp,            \* instance.timestamp
    kw_closure,           \* the closure the instance was constructed with
    created,              \* save()'s local `created`
    results_exist_ok,     \* save()'s keyword argument
    phase,                \* which super().save() of save() is running (1 or 2)
    sig_created,          \* the `created` argument post_save passes to the handler
    idx,                  \* position of move_to_data's loop in required_user_files
    old_filename,         \* move_to_data's local old_filename
    error,                \* the exception the last save() raised
    saves,                \* completed save() calls per instance
    promotions,           \* times move_to_data's `if created:` body was entered
    stage,                \* progress of that body: never, running, aborted, completed
    row,                  \* the persistent store: one row per instance
    next_id,              \* the store's primary key sequence
    now,                  \* the clock auto_now_add reads
    files,                \* filesystem: path -> bytes
    dirs,                 \* filesystem: the directories
    stale,                \* directories that existed before any job was created
    active,               \* the instance inside save(), 0 if none
    resolved              \* the last call of job_data / job_results by a caller

vars == <<wired, job_root_kind, required_user_files, class_tmp_id, TTL, pc, id,
          tmp_id, tmp_files, name, closure, timestamp, kw_closure, created,
          results_exist_ok, phase, sig_created, idx, old_filename, error, saves,
          promotions, stage, row, next_id, now, files, dirs, stale, active,
          upload_to_data, upload_to_results, resolved>>

typeVars == <<wired, job_root_kind, required_user_files, class_tmp_id, TTL, stale,
              upload_to_data, upload_to_results>>

\* ------------------------------------------------------------------- paths
\* os.path.join(a, b): an absolute b discards a; an empty b adds nothing
os_path_join(a, b) == IF b # << >> /\ b[1] = "/" THEN b ELSE a \o b

\* os.path.basename
basename(p) == p[Len(p)]

\* the directories above a path
Parents(p) == {SubSeq(p, 1, n) : n \in 1..(Len(p) - 1)}

IsPrefix(d, p) == Len(d) <= Len(p) /\ SubSeq(p, 1, Len(d)) = d

\* getattr(instance, '_tmp_id', None): the instance attribute shadows the class one
TmpIdOf(j) == IF tmp_id[j] # -1 THEN tmp_id[j] ELSE class_tmp_id

\* root_job, lines 53-54: the condition choosing the temporary tail
UsesTemporaryFlipped(idv, tmpid, tmpfiles) ==
    idv = Unset \/ (idv # Unset /\ tmpfiles # << >>)

UsesTemporaryIgnoresPending(idv, tmpid, tmpfiles) ==
    idv = Unset \/ (idv # Unset /\ tmpid # Unset)

UsesTemporary(idv, tmpid, tmpfiles) ==
    idv = Unset \/ (idv # Unset /\ tmpid # Unset /\ tmpfiles = << >>)

\* root_job, lines 46-52: the head, for a job_root that is not callable
HeadOf(kind) ==
    IF kind = "prefix" THEN PrefixRoot ELSE os_path_join(APP_ROOT, <<ClassNameLower>>)

\* root_job, lines 57 and 59: the tail
TailOf(idv, tmpid, tmpfiles) ==
    IF UsesTemporary(idv, tmpid, tmpfiles)
    THEN os_path_join(<<TEMPORARY_JOB_FOLDER>>, <<ToString(tmpid)>>)
    ELSE <<ToString(idv)>>

\* a root_job that appends the tail to the result of a callable job_root
root_job_all_heads(kind, idv, tmpid, tmpfiles) ==
    os_path_join(IF kind = "callable" THEN CallableRoot ELSE HeadOf(kind),
                 TailOf(idv, tmpid, tmpfiles))

\* root_job, lines 46-60, as a function of what it reads: the result of a
\* callable job_root is returned as it is (the callable modelled here ignores
\* the instance's state)
root_job_of(kind, idv, tmpid, tmpfiles) ==
    IF kind = "callable"
    THEN CallableRoot
    ELSE os_path_join(HeadOf(kind), TailOf(idv, tmpid, tmpfiles))

root_job(j) == root_job_of(job_root_kind, id[j], TmpIdOf(j), tmp_files[j])

\* root_job for an instance loaded later from the row of j: it has the row's
\* id, no _tmp_files and no _tmp_id of its own, so getattr reads the class's
ReloadedRoot(j) == root_job_of(job_root_kind, id[j], class_tmp_id, << >>)

\* root_job line 56: the assertion fails when the temporary tail is needed and
\* the type has no _tmp_id
root_job_asserts(j) ==
    job_root_kind # "callable" /\ UsesTemporary(id[j], TmpIdOf(j), tmp_files[j])
        => wired

\* callable(attribute_or_prefix), line 20
Callable(k) == k \in {"job_data", "job_results", "function", "lookalike", "partial"}

\* attribute_or_prefix.__code__, line 22: only functions and methods have it
HasCode(k) == k # "partial"

\* attribute_or_prefix.__code__.co_code, line 22: the bytecode of the function;
\* two functions of the same shape have equal bytecode
co_code(k) ==
    CASE k \in {"job_data", "lookalike"} -> "job_data"
      [] k = "job_results" -> "job_results"
      [] OTHER -> "function"

\* None, and the empty path: both are false for the `or` of lines 99 and 119
None == << >>

\* attribute_or_prefix(filename), line 25: what the user's callable returns
CallOverride(k, filename) == <<k>> \o filename

\* _user_path, lines 18-29: the value returned, whether the override was
\* called, and the exception raised
user_path(k, filename) ==
    IF k = "none" THEN [value |-> None, called |-> FALSE, error |-> "none"]
    ELSE IF ~Callable(k)
    THEN [value |-> os_path_join(PrefixUpload, filename), called |-> FALSE,
          error |-> "none"]
    ELSE IF ~HasCode(k)
    THEN [value |-> None, called |-> FALSE, error |-> "AttributeError"]
    ELSE IF co_code(k) # co_code("job_data") /\ co_code(k) # co_code("job_results")
    THEN [value |-> CallOverride(k, filename), called |-> TRUE, error |-> "none"]
    ELSE [value |-> None, called |-> FALSE, error |-> "none"]

\* a or b
Or(a, b) == IF a # None THEN a ELSE b

\* job_data, lines 98-100, and job_results, lines 119-120
job_data(j, filename) ==
    os_path_join(root_job(j),
                 Or(user_path(upload_to_data, filename).value,
                    os_path_join(<<"data">>, filename)))

job_results(j, filename) ==
    os_path_join(root_job(j),
                 Or(user_path(upload_to_results, filename).value,
                    os_path_join(<<"results">>, filename)))

\* ------------------------------------------------------------- filesystem
\* Storage.get_available_name: the name itself, or the first free variant of it
Variant(p, k) ==
    IF k = 0 THEN p
    ELSE SubSeq(p, 1, Len(p) - 1) \o <<basename(p) \o "_" \o ToString(k)>>

get_available_name(p) ==
    LET n == Cardinality(DOMAIN files)
        k == CHOOSE i \in 0..n :
                 /\ Variant(p, i) \notin DOMAIN files
                 /\ \A h \in 0..(i - 1) : Variant(p, h) \in DOMAIN files
    IN Variant(p, k)

\* the storage resolves a name below MEDIA_ROOT
StoragePath(p) == os_path_join(MEDIA_ROOT, p)

FilesAfterSave(p, bytes) ==
    [q \in DOMAIN files \cup {p} |-> IF q = p THEN bytes ELSE files[q]]

FilesAfterDeleteKeeps(p) == files

FilesAfterDelete(p) == [q \in DOMAIN files \ {p} |-> files[q]]

FilesAfterRmtree(d) == [q \in {x \in DOMAIN files : ~IsPrefix(d, x)} |-> files[q]]

DirsAfterRmtree(d) == {x \in dirs : ~IsPrefix(d, x)}

\* -------------------------------------------------------------------- Init
NoRow == [exists |-> FALSE, closure |-> Unset, timestamp |-> Unset,
          name |-> [f \in Fields |-> NoName]]

NoResolution == [fn |-> "none", job |-> 0, filename |-> None, error |-> "none",
                 called |-> FALSE, path |-> None]

\* a job type whose upload_to_data / upload_to_results are drawn from kinds,
\* before any instance of it exists
InitOf(kinds) ==
    /\ upload_to_data \in kinds
    /\ upload_to_results \in kinds
    /\ resolved = NoResolution
    /\ wired \in BOOLEAN
    /\ job_root_kind \in RootKinds
    /\ required_user_files \in (IF wired THEN RequiredLists ELSE {<< >>})
    /\ class_tmp_id \in (IF wired THEN TmpIds ELSE {Unset})
    /\ TTL \in 1..MaxTTL
    /\ stale \in (IF job_root_kind = "none"
                  THEN {{}, {os_path_join(HeadOf(job_root_kind), <<"1", "results">>)}}
                  ELSE {{}})
    /\ dirs = UNION {Parents(d) \cup {d} : d \in stale \cup {APP_ROOT}}
    /\ files = [q \in {} |-> <<0, "">>]
    /\ pc = [j \in Jobs |-> "none"]
    /\ id = [j \in Jobs |-> Unset]
    /\ tmp_id = [j \in Jobs |-> -1]
    /\ tmp_files = [j \in Jobs |-> << >>]
    /\ name = [j \in Jobs |-> [f \in Fields |-> NoName]]
    /\ closure = [j \in Jobs |-> Unset]
    /\ timestamp = [j \in Jobs |-> Unset]
    /\ kw_closure = [j \in Jobs |-> Unset]
    /\ created = [j \in Jobs |-> FALSE]
    /\ results_exist_ok = [j \in Jobs |-> FALSE]
    /\ phase = [j \in Jobs |-> 1]
    /\ sig_created = [j \in Jobs |-> FALSE]
    /\ idx = [j \in Jobs |-> 1]
    /\ old_filename = [j \in Jobs |-> NoName]
    /\ error = [j \in Jobs |-> "none"]
    /\ saves = [j \in Jobs |-> 0]
    /\ promotions = [j \in Jobs |-> 0]
    /\ stage = [j \in Jobs |-> "never"]
    /\ row = [j \in Jobs |-> NoRow]
    /\ next_id = 1
    /\ now = 1
    /\ active = 0

\* the job type leaves upload_to_data and upload_to_results at None
Init == InitOf({"none"})

\* the job type sets any of the overrides
InitPaths == InitOf(UploadKinds)

\* ----------------------------------------------------------------- actions
\* AJob(...): a new in-memory instance; the caller may pass a closure
Construct(j, c) ==
    /\ pc[j] = "none"
    /\ \A i \in Jobs : i < j => pc[i] # "none"
    /\ active = 0
    /\ pc' = [pc EXCEPT ![j] = "idle"]
    /\ closure' = [closure EXCEPT ![j] = c]
    /\ kw_closure' = [kw_closure EXCEPT ![j] = c]
    /\ UNCHANGED <<typeVars, resolved, id, tmp_id, tmp_files, name, timestamp, created,
                   results_exist_ok, phase, sig_created, idx, old_filename, error,
                   saves, promotions, stage, row, next_id, now, files, dirs, active>>

\* A file is stored for field f of a job that has no id yet: the field's
\* upload_to (job_data) names it, the storage picks a free name
Upload(j, f) ==
    /\ pc[j] = "idle"
    /\ active = 0
    /\ id[j] = Unset
    /\ name[j][f] = NoName
    /\ wired
    /\ root_job_asserts(j)
    /\ LET p == get_available_name(StoragePath(job_data(j, <<f>>)))
       IN /\ files' = FilesAfterSave(p, <<j, f>>)
          /\ dirs' = dirs \cup Parents(p)
          /\ name' = [name EXCEPT ![j][f] = p]
    /\ UNCHANGED <<typeVars, resolved, pc, id, tmp_id, tmp_files, closure, timestamp,
                   kw_closure, created, results_exist_ok, phase, sig_created, idx,
                   old_filename, error, saves, promotions, stage, row, next_id, now,
                   active>>

\* save(), line 239: created = not self.id (results_exist_ok is read only
\* when created, so a later save() is entered with its default)
SaveEnter(j, ok) ==
    /\ pc[j] = "idle"
    /\ id[j] # Unset => ~ok
    /\ active = 0
    /\ saves[j] < MaxSaves
    /\ active' = j
    /\ created' = [created EXCEPT ![j] = (id[j] = Unset)]
    /\ results_exist_ok' = [results_exist_ok EXCEPT ![j] = ok]
    /\ phase' = [phase EXCEPT ![j] = 1]
    /\ error' = [error EXCEPT ![j] = "none"]
    /\ pc' = [pc EXCEPT ![j] = "write"]
    /\ UNCHANGED <<typeVars, resolved, id, tmp_id, tmp_files, name, closure, timestamp,
                   kw_closure, sig_created, idx, old_filename, saves, promotions,
                   stage, row, next_id, now, files, dirs>>

\* where save() goes on after a super().save() and its post_save handlers
AfterWriteAlwaysFinalizes(j) == IF phase[j] = 1 THEN "closure" ELSE "makedirs"

AfterWrite(j) ==
    IF phase[j] = 1
    THEN IF created[j] THEN "closure" ELSE "return"
    ELSE "makedirs"

\* An exception raised in a post_save handler is not caught by save() (lines
\* 240-246 hold no try): it leaves save() at once
OnRaiseSwallowed(j) == AfterWrite(j)

OnRaise(j) == "return"

\* post_save's `created`: the write inserted the row
SignalCreatedAlways(inserted) == TRUE

SignalCreated(inserted) == inserted

\* super(AJob, self).save(), lines 240 and 244: an insert assigns id and
\* timestamp (auto_now_add); every write stores the instance's fields; then
\* post_save is sent, to move_to_data if the manager connected it
PersistWrite(j) ==
    /\ pc[j] = "write"
    /\ active = j
    /\ LET insert == (id[j] = Unset)
           newid == IF insert THEN next_id ELSE id[j]
           ts == IF insert THEN now ELSE timestamp[j]
       IN /\ id' = [id EXCEPT ![j] = newid]
          /\ next_id' = IF insert THEN next_id + 1 ELSE next_id
          /\ now' = IF insert THEN now + 1 ELSE now
          /\ timestamp' = [timestamp EXCEPT ![j] = ts]
          /\ row' = [row EXCEPT ![j] = [exists |-> TRUE, closure |-> closure[j],
                                        timestamp |-> ts, name |-> name[j]]]
          /\ sig_created' = [sig_created EXCEPT ![j] = SignalCreated(insert)]
    /\ pc' = [pc EXCEPT ![j] = IF wired THEN "signal" ELSE AfterWrite(j)]
    /\ UNCHANGED <<typeVars, resolved, tmp_id, tmp_files, name, closure, kw_closure, created,
                   results_exist_ok, phase, idx, old_filename, error, saves,
                   promotions, stage, files, dirs, active>>

\* move_to_data, lines 125-130: the configuration check, and for a created
\* row the snapshot of required_user_files into _tmp_files
MoveToDataEnter(j) ==
    /\ pc[j] = "signal"
    /\ active = j
    /\ IF ~wired
       THEN /\ error' = [error EXCEPT ![j] = "AttributeError"]
            /\ pc' = [pc EXCEPT ![j] = "return"]
            /\ UNCHANGED <<tmp_files, idx, promotions, stage>>
       ELSE IF sig_created[j]
       THEN /\ tmp_files' = [tmp_files EXCEPT ![j] = required_user_files]
            /\ idx' = [idx EXCEPT ![j] = 1]
            /\ promotions' = [promotions EXCEPT ![j] = @ + 1]
            /\ stage' = [stage EXCEPT ![j] = "running"]
            /\ pc' = [pc EXCEPT ![j] = "loop"]
            /\ UNCHANGED error
       ELSE /\ pc' = [pc EXCEPT ![j] = AfterWrite(j)]
            /\ UNCHANGED <<tmp_files, idx, promotions, stage, error>>
    /\ UNCHANGED <<typeVars, resolved, id, tmp_id, name, closure, timestamp, kw_closure,
                   created, results_exist_ok, phase, sig_created, old_filename,
                   saves, row, next_id, now, files, dirs, active>>

\* list.remove(field): the first occurrence goes
RemoveNothing(s, x) == s

Remove(s, x) ==
    LET i == CHOOSE k \in 1..Len(s) : s[k] = x /\ \A h \in 1..(k - 1) : s[h] # x
    IN SubSeq(s, 1, i - 1) \o SubSeq(s, i + 1, Len(s))

\* move_to_data, line 137: file.field.upload_to(instance, basename(old_filename))
NewFilenameKeepsOld(j, old) == old

NewFilename(j, old) == job_data(j, <<basename(old)>>)

\* a loop body that sets the reference without saving the bytes first
PromoteSaveReferenceOnly(j) ==
    /\ pc[j] = "loop"
    /\ active = j
    /\ idx[j] <= Len(required_user_files)
    /\ LET field == required_user_files[idx[j]]
           old == name[j][field]
       IN IF old = NoName \/ old \notin DOMAIN files
          THEN /\ error' = [error EXCEPT ![j] = "FileNotFoundError"]
               /\ stage' = [stage EXCEPT ![j] = "aborted"]
               /\ pc' = [pc EXCEPT ![j] = OnRaise(j)]
               /\ UNCHANGED <<name, old_filename>>
          ELSE /\ old_filename' = [old_filename EXCEPT ![j] = old]
               /\ name' = [name EXCEPT ![j][field] = NewFilename(j, old)]
               /\ pc' = [pc EXCEPT ![j] = "delete"]
               /\ UNCHANGED <<error, stage>>
    /\ UNCHANGED <<typeVars, resolved, id, tmp_id, tmp_files, closure, timestamp, kw_closure,
                   created, results_exist_ok, phase, sig_created, idx, saves,
                   promotions, row, next_id, now, active, files, dirs>>

\* move_to_data, lines 131-140: the next required field; no file raises, else
\* its bytes are saved under the new name and the reference is set to it
PromoteSave(j) ==
    /\ pc[j] = "loop"
    /\ active = j
    /\ idx[j] <= Len(required_user_files)
    /\ LET field == required_user_files[idx[j]]
           old == name[j][field]
           new == NewFilename(j, old)
           stored == get_available_name(StoragePath(new))
       IN IF old = NoName \/ old \notin DOMAIN files
          THEN /\ error' = [error EXCEPT ![j] = "FileNotFoundError"]
               /\ stage' = [stage EXCEPT ![j] = "aborted"]
               /\ pc' = [pc EXCEPT ![j] = OnRaise(j)]
               /\ UNCHANGED <<name, old_filename, files, dirs>>
          ELSE /\ old_filename' = [old_filename EXCEPT ![j] = old]
               /\ files' = FilesAfterSave(stored, files[old])
               /\ dirs' = dirs \cup Parents(stored)
               /\ name' = [name EXCEPT ![j][field] = new]
               /\ pc' = [pc EXCEPT ![j] = "delete"]
               /\ UNCHANGED <<error, stage>>
    /\ UNCHANGED <<typeVars, resolved, id, tmp_id, tmp_files, closure, timestamp, kw_closure,
                   created, results_exist_ok, phase, sig_created, idx, saves,
                   promotions, row, next_id, now, active>>

\* move_to_data, lines 141-143: the old bytes are deleted and the field
\* leaves the pending list
PromoteDelete(j) ==
    /\ pc[j] = "delete"
    /\ active = j
    /\ files' = FilesAfterDelete(StoragePath(old_filename[j]))
    /\ tmp_files' = [tmp_files EXCEPT
                        ![j] = Remove(@, required_user_files[idx[j]])]
    /\ idx' = [idx EXCEPT ![j] = @ + 1]
    /\ pc' = [pc EXCEPT ![j] = "loop"]
    /\ UNCHANGED <<typeVars, resolved, id, tmp_id, name, closure, timestamp, kw_closure,
                   created, results_exist_ok, phase, sig_created, old_filename,
                   error, saves, promotions, stage, row, next_id, now, dirs, active>>

\* move_to_data, line 145: shutil.rmtree(root_job(instance)); a folder that
\* does not exist raises
Rmtree(j) ==
    /\ pc[j] = "loop"
    /\ active = j
    /\ idx[j] > Len(required_user_files)
    /\ LET d == root_job(j)
       IN IF d \in dirs
          THEN /\ files' = FilesAfterRmtree(d)
               /\ dirs' = DirsAfterRmtree(d)
               /\ pc' = [pc EXCEPT ![j] = "exhaust"]
               /\ UNCHANGED <<error, stage>>
          ELSE /\ error' = [error EXCEPT ![j] = "FileNotFoundError"]
               /\ stage' = [stage EXCEPT ![j] = "aborted"]
               /\ pc' = [pc EXCEPT ![j] = OnRaise(j)]
               /\ UNCHANGED <<files, dirs>>
    /\ UNCHANGED <<typeVars, resolved, id, tmp_id, tmp_files, name, closure, timestamp,
                   kw_closure, created, results_exist_ok, phase, sig_created, idx,
                   old_filename, saves, promotions, row, next_id, now, active>>

\* move_to_data, line 146: setattr(instance, '_tmp_id', 0)
ExhaustedKeepsTmpId(j) == TmpIdOf(j)

Exhausted(j) == 0

Exhaust(j) ==
    /\ pc[j] = "exhaust"
    /\ active = j
    /\ tmp_id' = [tmp_id EXCEPT ![j] = Exhausted(j)]
    /\ stage' = [stage EXCEPT ![j] = "completed"]
    /\ pc' = [pc EXCEPT ![j] = AfterWrite(j)]
    /\ UNCHANGED <<typeVars, resolved, id, tmp_files, name, closure, timestamp, kw_closure,
                   created, results_exist_ok, phase, sig_created, idx, old_filename,
                   error, saves, promotions, row, next_id, now, files, dirs, active>>

\* save(), line 243: self.closure = self.timestamp + settings.TTL
ClosureTimestampOnly(j) == timestamp[j]

ClosureValue(j) == timestamp[j] + TTL

SetClosure(j) ==
    /\ pc[j] = "closure"
    /\ active = j
    /\ closure' = [closure EXCEPT ![j] = ClosureValue(j)]
    /\ phase' = [phase EXCEPT ![j] = 2]
    /\ pc' = [pc EXCEPT ![j] = "write"]
    /\ UNCHANGED <<typeVars, resolved, id, tmp_id, tmp_files, name, timestamp, kw_closure,
                   created, results_exist_ok, sig_created, idx, old_filename, error,
                   saves, promotions, stage, row, next_id, now, files, dirs, active>>

\* save(), line 246: the path handed to os.makedirs
ResultsDirTemporary(j) ==
    os_path_join(MEDIA_ROOT,
                 os_path_join(root_job_of(job_root_kind, Unset, class_tmp_id, << >>),
                              <<"results">>))

ResultsDir(j) == os_path_join(MEDIA_ROOT, job_results(j, << >>))

\* os.makedirs(path, exist_ok): raises when the path exists unless exist_ok
MakedirsRaises(path, ok) == path \in dirs /\ ~ok

Makedirs(j) ==
    /\ pc[j] = "makedirs"
    /\ active = j
    /\ LET path == ResultsDir(j)
       IN IF MakedirsRaises(path, results_exist_ok[j])
          THEN /\ error' = [error EXCEPT ![j] = "FileExistsError"]
               /\ UNCHANGED dirs
          ELSE /\ dirs' = dirs \cup Parents(path) \cup {path}
               /\ UNCHANGED error
    /\ pc' = [pc EXCEPT ![j] = "return"]
    /\ UNCHANGED <<typeVars, resolved, id, tmp_id, tmp_files, name, closure, timestamp,
                   kw_closure, created, results_exist_ok, phase, sig_created, idx,
                   old_filename, saves, promotions, stage, row, next_id, now, files,
                   active>>

\* save() returns, or the exception reaches the caller
Return(j) ==
    /\ pc[j] = "return"
    /\ active = j
    /\ active' = 0
    /\ saves' = [saves EXCEPT ![j] = @ + 1]
    /\ pc' = [pc EXCEPT ![j] = "idle"]
    /\ created' = [created EXCEPT ![j] = FALSE]
    /\ results_exist_ok' = [results_exist_ok EXCEPT ![j] = FALSE]
    /\ phase' = [phase EXCEPT ![j] = 1]
    /\ sig_created' = [sig_created EXCEPT ![j] = FALSE]
    /\ idx' = [idx EXCEPT ![j] = 1]
    /\ old_filename' = [old_filename EXCEPT ![j] = NoName]
    /\ UNCHANGED <<typeVars, resolved, id, tmp_id, tmp_files, name, closure, timestamp,
                   kw_closure, error, promotions, stage, row, next_id, now, files,
                   dirs>>

Next ==
    \E j \in Jobs :
        \/ \E c \in {Unset, GivenClosure} : Construct(j, c)
        \/ \E f \in Fields : Upload(j, f)
        \/ \E ok \in BOOLEAN : SaveEnter(j, ok)
        \/ PersistWrite(j)
        \/ MoveToDataEnter(j)
        \/ PromoteSave(j)
        \/ PromoteDelete(j)
        \/ Rmtree(j)
        \/ Exhaust(j)
        \/ SetClosure(j)
        \/ Makedirs(j)
        \/ Return(j)

Spec == Init /\ [][Next]_vars

\* ------------------------------------------------------- path resolution
\* a caller asks job_data(instance, filename): root_job first (line 98), then
\* _user_path (line 99)
ResolveData(j, filename) ==
    /\ pc[j] = "idle"
    /\ active = 0
    /\ LET u == user_path(upload_to_data, filename)
           e == IF ~root_job_asserts(j) THEN "AssertionError" ELSE u.error
       IN resolved' = [fn |-> "job_data", job |-> j, filename |-> filename,
                       error |-> e,
                       called |-> root_job_asserts(j) /\ u.called,
                       path |-> IF e = "none" THEN job_data(j, filename) ELSE None]
    /\ UNCHANGED <<typeVars, pc, id, tmp_id, tmp_files, name, closure, timestamp,
                   kw_closure, created, results_exist_ok, phase, sig_created, idx,
                   old_filename, error, saves, promotions, stage, row, next_id, now,
                   files, dirs, active>>

\* a caller asks job_results(instance, filename): _user_path first (line 119),
\* then root_job (line 120)
ResolveResults(j, filename) ==
    /\ pc[j] = "idle"
    /\ active = 0
    /\ LET u == user_path(upload_to_results, filename)
           e == IF u.error # "none" THEN u.error
                ELSE IF ~root_job_asserts(j) THEN "AssertionError" ELSE "none"
       IN resolved' = [fn |-> "job_results", job |-> j, filename |-> filename,
                       error |-> e,
                       called |-> u.called,
                       path |-> IF e = "none" THEN job_results(j, filename) ELSE None]
    /\ UNCHANGED <<typeVars, pc, id, tmp_id, tmp_files, name, closure, timestamp,
                   kw_closure, created, results_exist_ok, phase, sig_created, idx,
                   old_filename, error, saves, promotions, stage, row, next_id, now,
                   files, dirs, active>>

NextPaths ==
    \E j \in Jobs :
        \/ \E c \in {Unset, GivenClosure} : Construct(j, c)
        \/ \E fn \in Filenames : ResolveData(j, fn)
        \/ \E fn \in Filenames : ResolveResults(j, fn)

SpecPaths == InitPaths /\ [][NextPaths]_vars

TypeOK ==
    /\ pc \in [Jobs -> {"none", "idle", "write", "signal", "loop", "delete",
                        "exhaust", "closure", "makedirs", "return"}]
    /\ error \in [Jobs -> Errors]
    /\ stage \in [Jobs -> {"never", "running", "aborted", "completed"}]
    /\ active \in Jobs \cup {0}
    /\ \A j \in Jobs : saves[j] <= MaxSaves /\ promotions[j] <= MaxSaves

\* ------------------------------------------------------- claim vocabulary
\* root_job builds head/tail (job_root is not a callable)
HasTail == job_root_kind # "callable"

Constructed(j) == pc[j] # "none"

\* the root of an instance of the type that has no id yet
TemporaryRoot == HeadOf(job_root_kind) \o <<"tmp", ToString(class_tmp_id)>>

\* the root named after the instance's id
PermanentRoot(j) == HeadOf(job_root_kind) \o <<ToString(id[j])>>

\* the first save() of j has done all its work and is about to return normally
FirstSaveSucceeded(j) == pc[j] = "return" /\ created[j] /\ error[j] = "none"

\* the first save() of j is before its second super().save()
BeforeSecondWrite(j) ==
    active = j /\ created[j] /\ (phase[j] = 1 \/ (phase[j] = 2 /\ pc[j] = "write"))

\* promotion stopped at a declared required field that holds no file
AbortedByMissingFile(j) ==
    /\ stage[j] = "aborted"
    /\ tmp_files[j] # << >>
    /\ name[j][tmp_files[j][1]] = NoName

RequiredFields == {required_user_files[k] : k \in 1..Len(required_user_files)}

\* ------------------------------------------------------------------ claims
\* C1: over any sequence of save() calls on an instance of a wired type the
\* promotion body is entered at most once, and exactly once as soon as the
\* handler of the first write has run; while it runs the instance is in its
\* first save(), id is assigned and closure is neither computed nor written.
C1_PromotionOnce ==
    \A j \in Jobs :
        wired =>
            /\ promotions[j] <= 1
            /\ promotions[j] = 1 <=>
                   (id[j] # Unset /\ ~(pc[j] = "signal" /\ phase[j] = 1 /\ created[j]))
            /\ stage[j] = "running" =>
                   /\ active = j /\ created[j] /\ phase[j] = 1
                   /\ id[j] # Unset
                   /\ closure[j] = kw_closure[j]
                   /\ row[j].closure = kw_closure[j]

C1_Witness ==
    \E j \in Jobs :
        wired /\ saves[j] >= 2 /\ promotions[j] = 1 /\ stage[j] = "completed"

\* C2: when the first save() of a wired type's instance succeeds, the
\* temporary folder is gone and every declared required field refers to a
\* path <id>/data/<name> that holds the bytes uploaded for that field.
C2_PromotedFiles ==
    \A j \in Jobs :
        wired /\ HasTail /\ FirstSaveSucceeded(j) =>
            /\ TemporaryRoot \notin dirs
            /\ \A f \in RequiredFields :
                   /\ name[j][f] # NoName
                   /\ name[j][f] = PermanentRoot(j) \o <<"data", basename(name[j][f])>>
                   /\ name[j][f] \in DOMAIN files
                   /\ files[name[j][f]] = <<j, f>>

C2_Witness ==
    \E j \in Jobs :
        /\ wired /\ HasTail /\ FirstSaveSucceeded(j)
        /\ Len(required_user_files) = 2

\* C3: for an instance of a wired type, root_job is head/tmp/<temporary id>
\* whenever id is unset and head/<id> whenever promotion has completed, later
\* save() calls included.
C3_RootByIdentity ==
    \A j \in Jobs :
        wired /\ HasTail /\ Constructed(j) =>
            /\ id[j] = Unset => root_job(j) = TemporaryRoot
            /\ id[j] # Unset /\ stage[j] = "completed" => root_job(j) = PermanentRoot(j)

C3_Witness ==
    \E j \in Jobs :
        /\ wired /\ HasTail /\ stage[j] = "completed" /\ saves[j] >= 2
        /\ root_job(j) = PermanentRoot(j)

\* C4 as stated: with id set and a non-empty pending list root_job is the
\* temporary root, and it is the permanent root only when nothing is pending.
C4_PendingMeansTemporary ==
    \A j \in Jobs :
        wired /\ HasTail /\ Constructed(j) =>
            /\ id[j] # Unset /\ tmp_files[j] # << >> => root_job(j) = TemporaryRoot
            /\ root_job(j) = PermanentRoot(j) => id[j] # Unset /\ tmp_files[j] = << >>

\* C4 amended: with id set and a non-empty pending list (mid-promotion, or
\* after a promotion aborted by a missing file) root_job is the permanent
\* root head/<id>; with id set it is the temporary root only while the
\* pending list is empty or absent and the temporary id is not exhausted.
C4_PendingMeansPermanent ==
    \A j \in Jobs :
        wired /\ HasTail /\ Constructed(j) =>
            /\ id[j] # Unset /\ tmp_files[j] # << >> => root_job(j) = PermanentRoot(j)
            /\ AbortedByMissingFile(j) => root_job(j) = PermanentRoot(j)
            /\ id[j] # Unset /\ root_job(j) = TemporaryRoot =>
                   tmp_files[j] = << >> /\ TmpIdOf(j) # Unset /\ stage[j] # "completed"

C4_Witness ==
    \E j \in Jobs :
        /\ wired /\ HasTail /\ stage[j] = "running" /\ pc[j] = "delete"
        /\ Len(tmp_files[j]) = 2
        /\ root_job(j) = PermanentRoot(j)

C6_MissingFileAborts ==
    \A j \in Jobs :
        wired /\ AbortedByMissingFile(j) =>
            /\ id[j] # Unset
            /\ pc[j] \in {"return", "idle"} \/ ~created[j]
            /\ pc[j] = "return" /\ created[j] => error[j] = "FileNotFoundError"
            /\ kw_closure[j] = Unset => closure[j] = Unset /\ row[j].closure = Unset
            /\ HasTail /\ ResultsDir(j) \in dirs => ResultsDir(j) \in stale

C6_Witness ==
    \E j \in Jobs :
        /\ wired /\ HasTail /\ AbortedByMissingFile(j)
        /\ pc[j] = "idle" /\ saves[j] = 1 /\ error[j] = "FileNotFoundError"
        /\ kw_closure[j] = Unset /\ closure[j] = Unset

\* C7 as stated: after a promotion that failed during the first save() the
\* persistent store holds no row of that job.
C7_NoPartialRecord ==
    \A j \in Jobs : stage[j] = "aborted" => ~row[j].exists

\* C8 as stated: for every kind of job_root (absent, prefix, callable)
\* root_job is head/tail with the tail chosen by the identity state, so the
\* root of an instance without id differs from the root of a promoted one.
C8_HeadTailForEveryKind ==
    \A j \in Jobs :
        Constructed(j) /\ root_job_asserts(j) =>
            /\ root_job(j) =
                   (IF job_root_kind = "callable" THEN CallableRoot
                    ELSE HeadOf(job_root_kind))
                       \o TailOf(id[j], TmpIdOf(j), tmp_files[j])
            /\ \A i \in Jobs :
                   /\ wired /\ Constructed(i) /\ id[i] = Unset
                   /\ stage[j] = "completed"
                   => root_job(i) # root_job(j)

\* C8 amended: for an absent or prefix job_root, root_job is head/tail with
\* the tail chosen by the identity state, and the root of an instance without
\* id differs from the root of a promoted one; a callable job_root supplies
\* the whole root: root_job returns its result with no tail appended, so a
\* callable that ignores the identity state gives one path before and after
\* promotion.
C8_HeadTailUnlessCallable ==
    \A j \in Jobs :
        Constructed(j) /\ root_job_asserts(j) =>
            /\ HasTail =>
                   root_job(j) =
                       HeadOf(job_root_kind) \o TailOf(id[j], TmpIdOf(j), tmp_files[j])
            /\ ~HasTail => root_job(j) = CallableRoot
            /\ \A i \in Jobs :
                   /\ wired /\ Constructed(i) /\ id[i] = Unset
                   /\ stage[j] = "completed"
                   => (HasTail <=> root_job(i) # root_job(j))

C8_Witness ==
    \E i, j \in Jobs :
        /\ ~HasTail /\ wired /\ Constructed(i) /\ id[i] = Unset
        /\ stage[j] = "completed"
        /\ root_job(i) = root_job(j)

\* C9: makedirs is reached only in a first save() whose closure is already
\* in the row, and it is handed head/<id>/results, for wired and unwired
\* types; a first save() that succeeds leaves that directory in place; the
\* step raises exactly when the directory was already there and the caller
\* did not pass results_exist_ok.
C9_ResultsDirectory ==
    \A j \in Jobs :
        HasTail =>
            /\ pc[j] = "makedirs" =>
                   /\ created[j]
                   /\ ResultsDir(j) = PermanentRoot(j) \o <<"results">>
                   /\ row[j].closure = timestamp[j] + TTL
            /\ FirstSaveSucceeded(j) => PermanentRoot(j) \o <<"results">> \in dirs
            /\ pc[j] = "return" /\ created[j] /\ phase[j] = 2 =>
                   (error[j] = "FileExistsError" <=>
                        (PermanentRoot(j) \o <<"results">> \in stale
                         /\ ~results_exist_ok[j]))

C9_Witness ==
    \E j \in Jobs :
        /\ HasTail /\ wired /\ required_user_files # << >>
        /\ FirstSaveSucceeded(j)
        /\ PermanentRoot(j) \o <<"results">> \in stale
        /\ results_exist_ok[j]

\* C10 as stated: the temporary id is a value of the instance, drawn in
\* [10^6, 10^7) when the instance is constructed.
C10_PerJobTemporaryId ==
    \A j \in Jobs :
        wired /\ Constructed(j) /\ id[j] = Unset =>
            tmp_id[j] \in TmpIdLow..TmpIdHigh

\* What the code does instead: no instance holds a value of its own before
\* promotion, so all instances of the type without id share one root.
SharedTemporaryRoot ==
    \A i, j \in Jobs :
        /\ wired /\ Constructed(i) /\ Constructed(j)
        /\ id[i] = Unset /\ id[j] = Unset
        => tmp_id[i] = -1 /\ root_job(i) = root_job(j)

\* C11: every step of a save() entered with id already set leaves closure,
\* the filesystem and the promotion state alone (it only writes the row); so
\* after a creation aborted by a failed promotion closure stays unset across
\* later save() calls.
C11_LaterSaveOnlyPersists ==
    [][\A j \in Jobs :
           active = j /\ ~created[j] =>
               /\ UNCHANGED <<closure, files, dirs, name, promotions, stage,
                              tmp_id, tmp_files, id, timestamp>>
               /\ row'[j].closure = closure[j]]_vars

C11_Witness ==
    \E j \in Jobs :
        /\ wired /\ stage[j] = "aborted" /\ saves[j] >= 2
        /\ kw_closure[j] = Unset /\ closure[j] = Unset /\ row[j].closure = Unset

\* C12 as stated: a closure given by the caller before the first save() is
\* the one held in memory and in the row after that save.
C12_GivenClosureKept ==
    \A j \in Jobs :
        FirstSaveSucceeded(j) /\ kw_closure[j] # Unset =>
            closure[j] = kw_closure[j] /\ row[j].closure = kw_closure[j]

\* C13 as stated: for a wired type with an empty required list the first
\* save() does nothing to the filesystem during promotion, is not stopped by
\* promotion, sets closure and creates the results directory under <id>.
C13_EmptyListSaves ==
    \A j \in Jobs :
        /\ wired /\ HasTail /\ required_user_files = << >>
        /\ pc[j] = "return" /\ created[j]
        /\ PermanentRoot(j) \o <<"results">> \notin stale
        => /\ error[j] = "none"
           /\ closure[j] = timestamp[j] + TTL
           /\ PermanentRoot(j) \o <<"results">> \in dirs

\* C13, its frame part: no step of the promotion of such a type changes the
\* filesystem.
C13_EmptyListTouchesNothing ==
    [][\A j \in Jobs :
           /\ wired /\ required_user_files = << >>
           /\ active = j /\ pc[j] \in {"signal", "loop", "delete", "exhaust"}
           => UNCHANGED <<files, dirs>>]_vars

\* the reference of field f of j names a file that holds the bytes of that field
Referenced(j, f) ==
    name[j][f] \in DOMAIN files /\ files[name[j][f]] = <<j, f>>

\* C14: while promotion is at a required field (the last one included)
\* root_job is the permanent root, so the file is saved as
\* <id>/data/<basename>, a path outside tmp/<temporary id> and different from
\* the one it came from.
C14_DestinationIsPermanent ==
    \A j \in Jobs :
        wired /\ HasTail /\ stage[j] = "running" =>
            /\ pc[j] = "loop" /\ idx[j] <= Len(required_user_files) =>
                   root_job(j) = PermanentRoot(j)
            /\ pc[j] = "delete" =>
                   LET f == required_user_files[idx[j]]
                   IN /\ name[j][f] =
                             PermanentRoot(j) \o <<"data", basename(old_filename[j])>>
                      /\ name[j][f] # old_filename[j]
                      /\ ~IsPrefix(TemporaryRoot, name[j][f])
                      /\ Referenced(j, f)

C14_Witness ==
    \E j \in Jobs :
        /\ wired /\ HasTail /\ stage[j] = "running" /\ pc[j] = "delete"
        /\ idx[j] = 2 /\ Len(required_user_files) = 2
        /\ Referenced(j, required_user_files[2])

\* C15: when promotion reaches the folder delete every required field has
\* been processed, the pending list is empty and the temporary id is not yet
\* exhausted; the folder root_job names there is head/tmp/<temporary id>, not
\* the permanent root and above no promoted file; after the delete the
\* promoted files are still in place and the temporary id is still set.
C15_RmtreeTemporaryOnly ==
    \A j \in Jobs :
        wired /\ HasTail /\ stage[j] = "running" =>
            /\ pc[j] = "loop" /\ idx[j] > Len(required_user_files) =>
                   /\ tmp_files[j] = << >>
                   /\ tmp_id[j] = -1
                   /\ root_job(j) = TemporaryRoot
                   /\ root_job(j) # PermanentRoot(j)
                   /\ \A f \in RequiredFields :
                          Referenced(j, f) /\ ~IsPrefix(root_job(j), name[j][f])
            /\ pc[j] = "exhaust" =>
                   /\ tmp_id[j] = -1
                   /\ TemporaryRoot \notin dirs
                   /\ \A f \in RequiredFields : Referenced(j, f)
            /\ TmpIdOf(j) # Unset

C15_Witness ==
    \E j \in Jobs :
        /\ wired /\ HasTail /\ stage[j] = "running" /\ pc[j] = "exhaust"
        /\ Len(required_user_files) = 2
        /\ \A f \in RequiredFields : Referenced(j, f)

\* the position in required_user_files at which an aborted promotion stopped
StoppedAt(j) == Len(required_user_files) - Len(tmp_files[j]) + 1

\* C16: when promotion stops at the k-th required field because it holds no
\* file, every field before k refers to <id>/data/<name>, its bytes are there
\* and nowhere else; field k and the later ones are the pending list and
\* still refer to nothing or to a path under tmp/<temporary id>; and when the
\* save returns the temporary folder that held the promoted files is still
\* there.
C16_NoRollback ==
    \A j \in Jobs :
        wired /\ HasTail /\ AbortedByMissingFile(j) =>
            LET k == StoppedAt(j)
                n == Len(required_user_files)
            IN /\ k \in 1..n
               /\ tmp_files[j] = SubSeq(required_user_files, k, n)
               /\ \A i \in 1..(k - 1) :
                      LET f == required_user_files[i]
                      IN /\ name[j][f] =
                                PermanentRoot(j) \o <<"data", basename(name[j][f])>>
                         /\ Referenced(j, f)
                         /\ \A p \in DOMAIN files :
                                files[p] = <<j, f>> => p = name[j][f]
               /\ \A i \in k..n :
                      LET f == required_user_files[i]
                      IN name[j][f] = NoName \/ IsPrefix(TemporaryRoot, name[j][f])
               /\ pc[j] = "return" /\ created[j] /\ k > 1 => TemporaryRoot \in dirs

C16_Witness ==
    \E j \in Jobs :
        /\ wired /\ HasTail /\ AbortedByMissingFile(j)
        /\ StoppedAt(j) = 2
        /\ Referenced(j, required_user_files[1])
        /\ pc[j] = "return"

\* C17: no step of a running promotion loses the content of a required
\* file: a field whose reference names its bytes before the step still does
\* after it, at a path under the temporary or the permanent root; and between
\* the save and the delete the bytes are at both paths.
C17_NeverLosesContent ==
    [][\A j \in Jobs :
           wired /\ HasTail /\ active = j /\ stage[j] = "running" =>
               \A f \in RequiredFields :
                   /\ Referenced(j, f) =>
                          /\ name'[j][f] \in DOMAIN files'
                          /\ files'[name'[j][f]] = <<j, f>>
                          /\ \/ IsPrefix(TemporaryRoot, name'[j][f])
                             \/ IsPrefix(PermanentRoot(j), name'[j][f])
                   /\ Referenced(j, f) /\ pc'[j] = "delete" /\ pc[j] = "loop"
                        /\ f = required_user_files[idx[j]] =>
                          /\ old_filename'[j] \in DOMAIN files'
                          /\ files'[old_filename'[j]] = <<j, f>>
                          /\ name'[j][f] # old_filename'[j]]_vars

C17_Witness ==
    \E j \in Jobs :
        /\ wired /\ HasTail /\ stage[j] = "running" /\ pc[j] = "delete"
        /\ LET f == required_user_files[idx[j]]
           IN /\ Referenced(j, f)
              /\ old_filename[j] \in DOMAIN files
              /\ files[old_filename[j]] = <<j, f>>
              /\ old_filename[j] # name[j][f]

\* C18 as stated: when the first save() of A has succeeded, every file stored
\* for another instance B of the type that has no id yet is still where B's
\* reference says.
C18_NoInterference ==
    \A a, b \in Jobs :
        /\ a # b /\ wired /\ HasTail
        /\ FirstSaveSucceeded(a)
        /\ Constructed(b) /\ id[b] = Unset
        => \A f \in Fields : name[b][f] # NoName => Referenced(b, f)

\* C19 as stated: an instance loaded later for a row whose creating instance
\* completed promotion resolves the same root, data and results paths as the
\* creating instance, under <id>.
C19_ReloadedResolvesPermanent ==
    \A j \in Jobs :
        Constructed(j) /\ row[j].exists /\ stage[j] = "completed" =>
            /\ ReloadedRoot(j) = root_job(j)
            /\ HasTail => ReloadedRoot(j) = PermanentRoot(j)
            /\ os_path_join(ReloadedRoot(j), <<"data">>) = job_data(j, << >>)
            /\ os_path_join(ReloadedRoot(j), <<"results">>) = job_results(j, << >>)

\* the override and the default subfolder of the function last resolved
OverrideOf(fn) == IF fn = "job_data" THEN upload_to_data ELSE upload_to_results
DefaultOf(fn) == IF fn = "job_data" THEN <<"data">> ELSE <<"results">>

\* C20 as stated: where the root resolves, an override that is job_data or
\* job_results is not called and the path is root/<default subfolder>/filename;
\* any other callable override is called; a non-callable override is joined
\* as a prefix with the filename.
C20_OverrideResolution ==
    resolved.fn # "none" /\ root_job_asserts(resolved.job) =>
        LET k == OverrideOf(resolved.fn)
            root == root_job(resolved.job)
        IN /\ k \in {"job_data", "job_results"} =>
                  /\ resolved.error = "none" /\ ~resolved.called
                  /\ resolved.path = root \o DefaultOf(resolved.fn) \o resolved.filename
           /\ Callable(k) /\ k \notin {"job_data", "job_results"} =>
                  resolved.error = "none" /\ resolved.called
           /\ k = "prefix" =>
                  /\ resolved.error = "none" /\ ~resolved.called
                  /\ resolved.path = root \o PrefixUpload \o resolved.filename

\* What holds of C20: the two built-in functions are skipped, a prefix is
\* joined, and a function of the user whose bytecode differs from both
\* built-ins is called.
C20_BuiltinsSkippedOthersByBytecode ==
    resolved.fn # "none" /\ root_job_asserts(resolved.job) =>
        LET k == OverrideOf(resolved.fn)
            root == root_job(resolved.job)
        IN /\ k \in {"job_data", "job_results", "none"} =>
                  /\ resolved.error = "none" /\ ~resolved.called
                  /\ resolved.path = root \o DefaultOf(resolved.fn) \o resolved.filename
           /\ k = "function" =>
                  /\ resolved.error = "none" /\ resolved.called
                  /\ resolved.path = root \o CallOverride(k, resolved.filename)
           /\ k = "prefix" =>
                  /\ resolved.error = "none" /\ ~resolved.called
                  /\ resolved.path = root \o PrefixUpload \o resolved.filename

====
